---------------------------- MODULE Spec2Model ----------------------------
(***************************************************************************)
(* A model of bin/releaser.py of jfreventcollector: the command dispatch   *)
(* (parse_cli_args, cli, __main__), the per-release enrichment chain with  *)
(* its staleness gate (build_version, build_versions) and the cache layer  *)
(* (download_file, download_zip).                                          *)
(*                                                                         *)
(* Files are modelled by what the script reads of them: whether they       *)
(* exist, their modification time, and, for the metadata files, the set of *)
(* enrichment tools that have rewritten them since the seed copy.          *)
(* Time is a counter; one unit is half of CACHE_TIME.                      *)
(***************************************************************************)
EXTENDS Integers, Sequences, FiniteSets, TLC

\* ------------------------------------------------------------- bounds

MaxClock == 2
MaxRuns == 2
MaxNow == 3
MaxList == 3
MaxCalls == 3
MaxEntries == 2

\* --------------------------------------------------- program constants

\* CACHE_TIME, one day, in model time units
CACHE_TIME == 2
\* the default of download_zip's max_tries
DEFAULT_MAX_TRIES == 3
\* the minimum version get_repos keeps
MIN_VERSION == 11
VERSIONS_WITH_AI_DESCRIPTIONS == {21}

\* ------------------------------------------------------------ helpers

Max(a, b) == IF a >= b THEN a ELSE b

RECURSIVE SetMin(_)
SetMin(S) ==
    LET x == CHOOSE y \in S : TRUE
    IN  IF S = {x} THEN x
        ELSE LET m == SetMin(S \ {x}) IN IF x <= m THEN x ELSE m

RECURSIVE SetMax(_)
SetMax(S) ==
    LET x == CHOOSE y \in S : TRUE
    IN  IF S = {x} THEN x
        ELSE LET m == SetMax(S \ {x}) IN IF x >= m THEN x ELSE m

Range(s) == {s[i] : i \in 1..Len(s)}

\* ------------------------------------------------- the version catalog

\* A name (of a repository, of a tag) is the sequence of its characters.
Digits == {"0", "1", "2", "3", "4", "5", "6", "7", "8", "9"}

DigitVal(c) ==
    CASE c = "0" -> 0 [] c = "1" -> 1 [] c = "2" -> 2 [] c = "3" -> 3
      [] c = "4" -> 4 [] c = "5" -> 5 [] c = "6" -> 6 [] c = "7" -> 7
      [] c = "8" -> 8 [] c = "9" -> 9

DigitChar(d) ==
    CASE d = 0 -> "0" [] d = 1 -> "1" [] d = 2 -> "2" [] d = 3 -> "3"
      [] d = 4 -> "4" [] d = 5 -> "5" [] d = 6 -> "6" [] d = 7 -> "7"
      [] d = 8 -> "8" [] d = 9 -> "9"

\* name.startswith(p), name.endswith(p), c in name
StartsWith(name, p) == Len(name) >= Len(p) /\ SubSeq(name, 1, Len(p)) = p
EndsWith(name, p) ==
    Len(name) >= Len(p) /\ SubSeq(name, Len(name) - Len(p) + 1, Len(name)) = p
Contains(name, c) == \E i \in 1..Len(name) : name[i] = c

\* int(s) succeeds on a non-empty string of digits, and its value
IsInt(s) == Len(s) > 0 /\ \A i \in 1..Len(s) : s[i] \in Digits

RECURSIVE ParseInt(_)
ParseInt(s) ==
    IF Len(s) = 0 THEN 0
    ELSE ParseInt(SubSeq(s, 1, Len(s) - 1)) * 10 + DigitVal(s[Len(s)])

\* str(n) of a natural number
RECURSIVE IntStr(_)
IntStr(n) ==
    IF n < 10 THEN <<DigitChar(n)>>
    ELSE Append(IntStr(n \div 10), DigitChar(n % 10))

\* s.replace("+", ".").split(".")[0]: s up to its first "+" or "."
FirstField(s) ==
    LET stops == {i \in 1..Len(s) : s[i] \in {"+", "."}}
    IN  IF stops = {} THEN s ELSE SubSeq(s, 1, SetMin(stops) - 1)

JDK == <<"j", "d", "k">>
JDK_DASH == <<"j", "d", "k", "-">>

\* names of repositories of the organisation
Repo_jdk == JDK
Repo_jdk8u == <<"j", "d", "k", "8", "u">>
Repo_jdk11u == <<"j", "d", "k", "1", "1", "u">>
Repo_jdk17u == <<"j", "d", "k", "1", "7", "u">>
Repo_jdk21u == <<"j", "d", "k", "2", "1", "u">>
Repo_jdk8u_dev == <<"j", "d", "k", "8", "u", "-", "d", "e", "v">>

\* The repositories the hosting API lists for the organisation, in the
\* order of the two pages.
OrgRepos == <<Repo_jdk21u, Repo_jdk8u, Repo_jdk, Repo_jdk8u_dev>>

\* the versions of a set in increasing order
RECURSIVE SortedSeq(_)
SortedSeq(S) ==
    IF S = {} THEN <<>>
    ELSE LET m == SetMin(S) IN <<m>> \o SortedSeq(S \ {m})

\* the list returned as collected
SortedByVersion_Unsorted(repos) == repos

\* sorted(repos, key=lambda r: r.version): a stable sort
RECURSIVE SortedByVersion(_)
SortedByVersion(repos) ==
    IF Len(repos) = 0 THEN <<>>
    ELSE LET rest == SortedByVersion(SubSeq(repos, 1, Len(repos) - 1))
             x == repos[Len(repos)]
             before == SelectSeq(rest, LAMBDA r : r.version <= x.version)
             after == SelectSeq(rest, LAMBDA r : r.version > x.version)
         IN  before \o <<x>> \o after

\* get_repos with the trunk numbered like the newest release train
GetRepos_TipIsMax(json) ==
    LET matching == SelectSeq(json, LAMBDA n : StartsWith(n, JDK) /\ EndsWith(n, <<"u">>))
        middle(n) == SubSeq(n, 4, Len(n) - 1)
        kept == SelectSeq(matching, LAMBDA n : ParseInt(middle(n)) >= MIN_VERSION)
        repos == [i \in 1..Len(kept) |->
                    [version |-> ParseInt(middle(kept[i])), name |-> kept[i]]]
    IN  IF Len(repos) = 0
        THEN [raises |-> "ValueError", repos |-> <<>>]
        ELSE LET max_version == SetMax({repos[i].version : i \in 1..Len(repos)})
             IN  [raises |-> "none",
                  repos |-> SortedByVersion(
                      Append(repos, [version |-> max_version, name |-> Repo_jdk]))]

\* get_repos on the list json of repository names: the jdk<N>u repositories
\* with N >= 11, then the trunk as max + 1, sorted by version. int raises
\* ValueError on a middle part that is no number, max on an empty list.
\* (create_repo looks up the latest tag of each release it adds.)
GetRepos(json) ==
    LET matching == SelectSeq(json, LAMBDA n : StartsWith(n, JDK) /\ EndsWith(n, <<"u">>))
        middle(n) == SubSeq(n, 4, Len(n) - 1)
        kept == SelectSeq(matching, LAMBDA n : ParseInt(middle(n)) >= MIN_VERSION)
        repos == [i \in 1..Len(kept) |->
                    [version |-> ParseInt(middle(kept[i])), name |-> kept[i]]]
    IN  IF \E i \in 1..Len(matching) : ~IsInt(middle(matching[i]))
        THEN [raises |-> "ValueError", repos |-> <<>>]
        ELSE IF Len(repos) = 0
        THEN [raises |-> "ValueError", repos |-> <<>>]
        ELSE LET max_version == SetMax({repos[i].version : i \in 1..Len(repos)})
             IN  [raises |-> "none",
                  repos |-> SortedByVersion(
                      Append(repos, [version |-> max_version + 1, name |-> Repo_jdk]))]

\* the versions of get_repos() for the repositories of the organisation
get_repos ==
    LET r == GetRepos(OrgRepos).repos IN [i \in 1..Len(r) |-> r[i].version]

Versions == Range(get_repos)

\* names of tags
Tag_vm_22 == <<"v", "m", "-", "2", "2", ".", "3">>
Tag_jdk_21_0_1 == <<"j", "d", "k", "-", "2", "1", ".", "0", ".", "1">>
Tag_jdk_21_0_2 == <<"j", "d", "k", "-", "2", "1", ".", "0", ".", "2">>
Tag_jdk_21_35 == <<"j", "d", "k", "-", "2", "1", "+", "3", "5">>
Tag_jdk_21_ga == <<"j", "d", "k", "-", "2", "1", "-", "g", "a">>
Tag_jdk_22_1 == <<"j", "d", "k", "-", "2", "2", "+", "1">>
Tag_jdk_17_0_9 == <<"j", "d", "k", "-", "1", "7", ".", "0", ".", "9">>

\* get_tags: the tags of the repository whose name starts with jdk-<version>
get_tags(version, tags) ==
    SelectSeq(tags, LAMBDA n : StartsWith(n, JDK_DASH \o IntStr(version)))

\* the tag selection taking the last tag with a "."
get_latest_release_name_LastDotted(version, tags) ==
    LET names == get_tags(version, tags)
        dotted == SelectSeq(names, LAMBDA n : Contains(n, "."))
    IN  IF Len(names) = 0 THEN [raises |-> "IndexError", name |-> <<>>]
        ELSE IF Len(dotted) > 0 THEN [raises |-> "none", name |-> dotted[Len(dotted)]]
        ELSE [raises |-> "none", name |-> names[1]]

\* get_latest_release_name_and_zip_url: the first tag of get_tags with a "."
\* in its name, the first tag when there is none; names[0] raises IndexError
\* on an empty list
get_latest_release_name(version, tags) ==
    LET names == get_tags(version, tags)
        dotted == SelectSeq(names, LAMBDA n : Contains(n, "."))
    IN  IF Len(names) = 0 THEN [raises |-> "IndexError", name |-> <<>>]
        ELSE IF Len(dotted) > 0 THEN [raises |-> "none", name |-> dotted[1]]
        ELSE [raises |-> "none", name |-> names[1]]

\* the pages the loop of get_graal_versions requests
GRAAL_TAG_PAGES == 5

\* The tags get_graal_versions collects: the server holds the list all and
\* returns it in pages of per tags; the loop stops after GRAAL_TAG_PAGES
\* pages or after the first empty page.
RECURSIVE FetchedTags(_, _, _)
FetchedTags(all, per, page) ==
    IF page > GRAAL_TAG_PAGES THEN <<>>
    ELSE LET first == (page - 1) * per + 1
             last == IF page * per <= Len(all) THEN page * per ELSE Len(all)
             raw == SubSeq(all, first, last)
         IN  IF Len(raw) = 0 THEN <<>>
             ELSE raw \o FetchedTags(all, per, page + 1)

\* the version number of a tag with the marker jdk-
TagVersion(name) == ParseInt(FirstField(SubSeq(name, 5, Len(name))))

\* get_graal_versions with a later tag replacing an earlier one
GetGraalVersions_LastWins(tags) ==
    LET last == {i \in 1..Len(tags) :
                    /\ StartsWith(tags[i], JDK_DASH)
                    /\ \A j \in (i + 1)..Len(tags) :
                          ~(StartsWith(tags[j], JDK_DASH)
                              /\ TagVersion(tags[j]) = TagVersion(tags[i]))}
        versions == {TagVersion(tags[i]) : i \in last}
        of(v) == CHOOSE i \in last : TagVersion(tags[i]) = v
        order == SortedSeq(versions)
    IN  [k \in 1..Len(order) |-> [jdk_version |-> order[k], tag |-> tags[of(order[k])]]]

\* get_graal_versions on the collected tags: for every version the first
\* jdk- tag in fetch order, sorted by version
GetGraalVersions(tags) ==
    LET first == {i \in 1..Len(tags) :
                    /\ StartsWith(tags[i], JDK_DASH)
                    /\ \A j \in 1..(i - 1) :
                          ~(StartsWith(tags[j], JDK_DASH)
                              /\ TagVersion(tags[j]) = TagVersion(tags[i]))}
        versions == {TagVersion(tags[i]) : i \in first}
        of(v) == CHOOSE i \in first : TagVersion(tags[i]) = v
        order == SortedSeq(versions)
    IN  [k \in 1..Len(order) |-> [jdk_version |-> order[k], tag |-> tags[of(order[k])]]]

\* The tags of the companion repository, as the server holds them.
GraalTags == <<Tag_vm_22, Tag_jdk_21_0_1, Tag_jdk_21_35>>

\* the tags in a page of the companion repository's API, scaled down
GRAAL_PER_PAGE == 2

get_graal_versions == GetGraalVersions(FetchedTags(GraalTags, GRAAL_PER_PAGE, 1))

has_graal_version(v) ==
    \E i \in 1..Len(get_graal_versions) : get_graal_versions[i].jdk_version = v

\* list_gc_options: the collectors of the installed JDK, in listing order
GC_OPTIONS == <<"UseG1GC", "UseSerialGC">>

GCs == Range(GC_OPTIONS)

\* ------------------------------------------------------ the command line

\* The command lines a process is started with. An argument is modelled as
\* arg.split("=") sees it; "--force" is compared before it is split.
Argvs ==
    { << <<"build_versions">> >>,
      << <<"build_versions", "force">> >>,
      << <<"--force">>, <<"build_versions">> >>,
      << <<"build_versions">>, <<"--force">> >>,
      << <<"all">> >>,
      << <<"all", "force">> >>,
      << <<"--force">>, <<"all">> >>,
      << <<"deploy_gh", "force">> >>,
      << <<"build_versions", "force", "force">> >>,
      << <<"build_versions", "now">> >>,
      << <<"publish">> >>,
      << <<"--force">> >> }

available_commands ==
    {"versions", "download_urls", "download", "build_parser", "create_jfr",
     "build_versions", "build", "deploy_mvn", "deploy_gh", "deploy",
     "deploy_release", "clear", "all", "tags"}

forcable_commands == {"all", "create_jfr", "build_versions"}

\* parse_cli_args: the loop over sys.argv[1:], from argument i on, with the
\* commands and forced commands collected so far; exit is sys.exit(1)
RECURSIVE ParseFrom(_, _, _, _)
ParseFrom(argv, i, commands, forced_commands) ==
    IF i > Len(argv)
    THEN [exit |-> FALSE, commands |-> commands, forced |-> forced_commands]
    ELSE LET arg == argv[i]
             cmd == Head(arg)
             args == Tail(arg)
             bad == [exit |-> TRUE, commands |-> commands, forced |-> forced_commands]
         IN  IF arg = <<"--force">>
             THEN ParseFrom(argv, i + 1, commands, forcable_commands)
             ELSE IF cmd \notin available_commands THEN bad
             ELSE IF Len(args) = 1
                  THEN IF args[1] = "force"
                       THEN IF cmd \notin forcable_commands THEN bad
                            ELSE ParseFrom(argv, i + 1, Append(commands, cmd),
                                           forced_commands \cup {cmd})
                       ELSE bad
             ELSE IF Len(args) > 1 THEN bad
             ELSE ParseFrom(argv, i + 1, Append(commands, cmd), forced_commands)

parse_cli_args(argv) == ParseFrom(argv, 1, <<>>, {})


\* ------------------------------------------------------------- state

VARIABLES
    clock,      \* time.time()
    runs,       \* the processes started so far
    sample,     \* mtime of jfr/sample_<gc>.jfr, -1 when the file is missing
    src,        \* mtime of <repo_folder>/src, -1 when the alias is missing
    graalDir,   \* the alias graal_folder of the companion of the release exists
    meta,       \* metadata/metadata_<v>.xml: exists, mtime, content
    woex,       \* metadata/metadata_<v>_wo_examples.xml: exists, content
    evts,       \* metadata/metadata_<v>_events.xml: exists, content
    parserJar,  \* target/jfreventcollector-full.jar exists
    openaiKey,  \* .openai.key exists
    proc,       \* the process: idle, running, exit0, exit1, traceback
    exc,        \* the exception that ended the process, or "none"
    lastSub,    \* the last subprocess the process ran: release, tool, exit status 0
    commands,   \* CLIArgs.commands
    forced,     \* CLIArgs.forced_commands
    cmdIdx,     \* the command the loop of cli is at
    pc,         \* the function the process is in
    allStep,    \* the element of the list of "all" being evaluated, 0 outside
    bvForce,    \* the force parameter of build_versions
    repoIdx,    \* the release the loop of build_versions is at
    stage,      \* the statement of build_version the process is at
    gcIdx,      \* the collector the loop of add_examples is at
    gateLog     \* what the gate decided for each release in this build_versions

fsVars == <<sample, src, graalDir, meta, woex, evts, parserJar, openaiKey>>
cliVars == <<commands, forced, cmdIdx, allStep>>
bvVars == <<bvForce, repoIdx, stage, gcIdx, gateLog>>
pipeVars == <<clock, runs, fsVars, proc, exc, lastSub, cliVars, pc, bvVars>>

VARIABLES
    now,        \* time.time()
    files,      \* the cache files: exists, mtime, body
    unpacked,   \* the directory of the unpacked archive: absent, partial, complete
    fproc,      \* the process: idle, running, exit0, exit1, traceback
    fexc,       \* the exception that ended the process: type, code
    fpc,        \* the function the process is in: download_file, download_zip, unzip
    fkey,       \* the cache file of the call
    retention,  \* the retention parameter of download_file
    max_tries,  \* the max_tries parameter of download_zip
    retries,    \* the recursive calls of download_zip the process has made
    resp,       \* what the last call of download_file got: hit, or the server's response
    printed     \* the messages the process has printed

fetchVars == <<now, files, unpacked, fproc, fexc, fpc, fkey, retention, max_tries,
               retries, resp, printed>>

VARIABLES
    catFn,      \* the catalog function applied: get_repos, latest, graal
    catDone,    \* the function has returned or raised
    orgJson,    \* the repository names the API lists, in the order of the pages
    reposOut,   \* what get_repos returned: raises, repos
    tagVersion, \* the version of the release whose latest tag is looked up
    repoTags,   \* the tag names the API lists for its repository
    latestOut,  \* what get_latest_release_name_and_zip_url returned: raises, name
    graalAll,   \* the tag names of the companion repository, as the server holds them
    perPage,    \* the tags in one page of the companion repository's API
    graalOut    \* what get_graal_versions returned

catVars == <<catFn, catDone, orgJson, reposOut, tagVersion, repoTags, latestOut,
             graalAll, perPage, graalOut>>

VARIABLES
    ghRelease,  \* the release under the tag VERSION on the host: exists, notes, assets
    changelog,  \* the first section of CHANGELOG.md, read by get_changelog
    created,    \* the releases gh release create has made under the tag
    localReady, \* the jars and the metadata files deploy_github copies exist
    deploys,    \* the processes started so far
    dproc,      \* the process: idle, running, exit0, traceback
    dpc,        \* the statement of deploy_github the process is at
    tiers       \* the gh commands the process has run: cmd, ok, up, captured

pubVars == <<ghRelease, changelog, created, localReady, deploys, dproc, dpc, tiers>>

\* the variables outside each layer
\* the aliases of the cache: download_latest_release, download_graal_version
VARIABLES
    link,       \* alias -> the symbolic link: exists, target (an unpacked archive), entry
    dirs,       \* the unpacked archives under JDK_ZIP_DIR, by the name of their tag
    entries,    \* tag -> the number of top-level entries of the unpacked archive
    hostLatest, \* the tag get_latest_release_name_and_zip_url selects at the host
    afn,        \* the function that is running: "latest", "graal" or "none"
    aproc,      \* "none", "running", "exit0", "exit1"
    apc,        \* the statement the running function is at
    apath,      \* the directory download_zip has returned
    acalls,     \* the calls made so far
    existed     \* alias -> a call has created the alias

aliasVars == <<link, dirs, entries, hostLatest, afn, aproc, apc, apath, acalls, existed>>

nonPipeVars == <<fetchVars, catVars, pubVars, aliasVars>>
nonFetchVars == <<pipeVars, catVars, pubVars, aliasVars>>
nonCatVars == <<pipeVars, fetchVars, pubVars, aliasVars>>
nonPubVars == <<pipeVars, fetchVars, catVars, aliasVars>>
nonAliasVars == <<pipeVars, fetchVars, catVars, pubVars>>

NoFile == [exists |-> FALSE, mtime |-> -1, content |-> {}]
NoCopy == [exists |-> FALSE, content |-> {}]
Sub(v, tool, ok) == [v |-> v, tool |-> tool, ok |-> ok]
NoSub == Sub(0, "none", TRUE)
NoGate == [v \in Versions |-> "none"]

\* the locals of a process that has not started or has ended
NoBuildVersions ==
    /\ bvForce' = FALSE
    /\ repoIdx' = 0
    /\ stage' = "none"
    /\ gcIdx' = 0
    /\ gateLog' = NoGate

NoLocals ==
    /\ commands' = <<>>
    /\ forced' = {}
    /\ cmdIdx' = 0
    /\ allStep' = 0
    /\ pc' = "none"
    /\ NoBuildVersions

\* A fresh checkout: nothing downloaded, recorded or built.
InitPipe ==
    /\ clock = 0
    /\ runs = 0
    /\ sample = [g \in GCs |-> -1]
    /\ src = [v \in Versions |-> -1]
    /\ graalDir = [v \in Versions |-> FALSE]
    /\ meta = [v \in Versions |-> NoFile]
    /\ woex = [v \in Versions |-> NoCopy]
    /\ evts = [v \in Versions |-> NoCopy]
    /\ parserJar = FALSE
    /\ openaiKey \in BOOLEAN
    /\ proc = "idle"
    /\ exc = "none"
    /\ lastSub = NoSub
    /\ commands = <<>>
    /\ forced = {}
    /\ cmdIdx = 0
    /\ pc = "none"
    /\ allStep = 0
    /\ bvForce = FALSE
    /\ repoIdx = 0
    /\ stage = "none"
    /\ gcIdx = 0
    /\ gateLog = NoGate

\* time passes: between processes, between the commands of a process and
\* between the releases of build_versions
Tick ==
    /\ clock < MaxClock
    /\ \/ proc # "running"
       \/ pc \in {"dispatch", "all"}
       \/ pc = "build_versions" /\ stage = "entry"
    /\ clock' = clock + 1
    /\ UNCHANGED <<runs, fsVars, proc, exc, lastSub, cliVars, pc, bvVars>>
    /\ UNCHANGED nonPipeVars

\* an uncaught exception ends the process with a traceback
Raise(e) ==
    /\ proc' = "traceback"
    /\ exc' = e
    /\ NoLocals

\* the process goes on
Running == UNCHANGED <<proc, exc>>

\* __main__ and parse_cli_args: a process is started with a command line
cli_start ==
    /\ proc # "running"
    /\ runs < MaxRuns
    /\ runs' = runs + 1
    /\ \E argv \in Argvs :
        LET a == parse_cli_args(argv)
        IN  IF a.exit
            THEN /\ proc' = "exit1"
                 /\ NoLocals
            ELSE /\ proc' = "running"
                 /\ commands' = a.commands
                 /\ forced' = a.forced
                 /\ cmdIdx' = 1
                 /\ allStep' = 0
                 /\ pc' = "dispatch"
                 /\ NoBuildVersions
    /\ exc' = "none"
    /\ lastSub' = NoSub
    /\ UNCHANGED <<clock, fsVars>>
    /\ UNCHANGED nonPipeVars

\* build_versions is entered: the loop starts at the first release
EnterBuildVersions(force) ==
    /\ pc' = "build_versions"
    /\ bvForce' = force
    /\ repoIdx' = 1
    /\ stage' = "entry"
    /\ gcIdx' = 0
    /\ gateLog' = NoGate

\* the callee returned: the next element of the list of "all", or the next
\* command of the loop of cli
Return ==
    /\ IF allStep > 0
       THEN /\ pc' = "all"
            /\ allStep' = allStep + 1
            /\ cmdIdx' = cmdIdx
       ELSE /\ pc' = "dispatch"
            /\ allStep' = 0
            /\ cmdIdx' = cmdIdx + 1
    /\ NoBuildVersions
    /\ UNCHANGED <<commands, forced>>

\* The time the archive gives the src directory it unpacks: that of an old
\* commit or of one made just now.
ArchiveTimes == {0, clock}

\* The java runs of create_jfr for the collectors in todo, in listing order:
\* a run in R writes its recording; a failed run is tolerated when the
\* recording exists (create_jfr catches the error) and raised when it does
\* not, which ends the loop.
JfrRuns(todo, R) ==
    LET failMissing == {i \in 1..Len(GC_OPTIONS) :
                          /\ GC_OPTIONS[i] \in todo
                          /\ GC_OPTIONS[i] \notin R
                          /\ sample[GC_OPTIONS[i]] < 0}
        stop == IF failMissing = {} THEN Len(GC_OPTIONS) + 1 ELSE SetMin(failMissing)
    IN  [raised |-> failMissing # {},
         sample |-> [g \in GCs |->
                       IF \E i \in 1..(stop - 1) :
                            GC_OPTIONS[i] = g /\ g \in todo /\ g \in R
                       THEN clock ELSE sample[g]]]

\* ------------------------------------------------------------ cli

\* cli: the loop over the commands; a forced command is called with
\* force=True, which the lambda of "all" does not accept
cli_dispatch ==
    /\ proc = "running"
    /\ pc = "dispatch"
    /\ cmdIdx <= Len(commands)
    /\ LET command == commands[cmdIdx]
       IN  \/ /\ command = "all"
              /\ command \in forced
              /\ Raise("TypeError")
           \/ /\ command = "all"
              /\ command \notin forced
              /\ pc' = "all"
              /\ allStep' = 1
              /\ Running
              /\ UNCHANGED <<commands, forced, cmdIdx, bvVars>>
           \/ /\ command = "build_versions"
              /\ EnterBuildVersions(command \in forced)
              /\ Running
              /\ UNCHANGED cliVars
    /\ UNCHANGED <<clock, runs, fsVars, lastSub>>
    /\ UNCHANGED nonPipeVars

\* the list of the lambda of "all": download(), build_parser(),
\* create_jfr(force=...), build_versions(force=...), build(), deploy()
cli_all ==
    /\ proc = "running"
    /\ pc = "all"
    /\ \/ /\ allStep \in {1, 2, 3, 5, 6}
          /\ pc' = CASE allStep = 1 -> "download"
                     [] allStep = 2 -> "build_parser"
                     [] allStep = 3 -> "create_jfr"
                     [] allStep = 5 -> "build"
                     [] allStep = 6 -> "deploy"
          /\ UNCHANGED <<cliVars, bvVars>>
       \/ /\ allStep = 4
          /\ EnterBuildVersions("build_versions" \in forced)
          /\ UNCHANGED cliVars
       \/ /\ allStep = 7
          /\ pc' = "dispatch"
          /\ allStep' = 0
          /\ cmdIdx' = cmdIdx + 1
          /\ UNCHANGED <<commands, forced, bvVars>>
    /\ UNCHANGED <<clock, runs, fsVars, proc, exc, lastSub>>
    /\ UNCHANGED nonPipeVars

\* cli, after the loop: clear_harness_and_launchers, then the process ends
cli_clear ==
    /\ proc = "running"
    /\ pc = "dispatch"
    /\ cmdIdx > Len(commands)
    /\ \/ /\ proc' = "exit0"
          /\ exc' = "none"
          /\ NoLocals
          /\ lastSub' = Sub(0, "rm", TRUE)
       \/ /\ Raise("CalledProcessError")
          /\ lastSub' = Sub(0, "rm", FALSE)
    /\ UNCHANGED <<clock, runs, fsVars>>
    /\ UNCHANGED nonPipeVars

\* download: every release's source tree is fetched and its alias linked
\* again, and so is the tree of its companion when it has one; the src
\* directory carries the time the archive gives it
download ==
    /\ proc = "running"
    /\ pc = "download"
    /\ \/ /\ \E f \in [Versions -> ArchiveTimes] : src' = f
          /\ graalDir' = [v \in Versions |-> has_graal_version(v)]
          /\ Return
          /\ Running
       \/ /\ \E e \in {"NameError", "CalledProcessError"} : Raise(e)
          /\ UNCHANGED <<src, graalDir>>
    /\ UNCHANGED <<clock, runs, sample, meta, woex, evts, parserJar, openaiKey, lastSub>>
    /\ UNCHANGED nonPipeVars

\* build_parser: mvn clean package assembly:single
build_parser ==
    /\ proc = "running"
    /\ pc = "build_parser"
    /\ \/ /\ parserJar' = TRUE
          /\ lastSub' = Sub(0, "mvn", TRUE)
          /\ Return
          /\ Running
       \/ /\ parserJar' \in {parserJar, FALSE}
          /\ lastSub' = Sub(0, "mvn", FALSE)
          /\ Raise("CalledProcessError")
    /\ UNCHANGED <<clock, runs, sample, src, graalDir, meta, woex, evts, openaiKey>>
    /\ UNCHANGED nonPipeVars

\* create_jfr without a collector (its force parameter only guards the
\* recording named after no collector, which no run writes)
create_jfr ==
    /\ proc = "running"
    /\ pc = "create_jfr"
    /\ \E R \in SUBSET GCs :
        LET r == JfrRuns(GCs, R)
        IN  /\ sample' = r.sample
            /\ \/ /\ ~r.raised
                  /\ Return
                  /\ Running
               \/ /\ r.raised
                  /\ Raise("CalledProcessError")
    /\ UNCHANGED <<clock, runs, src, graalDir, meta, woex, evts, parserJar, openaiKey, lastSub>>
    /\ UNCHANGED nonPipeVars

\* build: mvn clean package, the copies into the resources folder, the
\* loader package (every artifact exists: build follows build_versions)
build ==
    /\ proc = "running"
    /\ pc = "build"
    /\ \/ /\ parserJar' = TRUE
          /\ lastSub' = Sub(0, "build", TRUE)
          /\ Return
          /\ Running
       \/ /\ parserJar' \in {parserJar, FALSE}
          /\ lastSub' = Sub(0, "build", FALSE)
          /\ Raise("CalledProcessError")
    /\ UNCHANGED <<clock, runs, sample, src, graalDir, meta, woex, evts, openaiKey>>
    /\ UNCHANGED nonPipeVars

\* deploy: deploy_maven, which raises when mvn fails, then deploy_github
deploy ==
    /\ proc = "running"
    /\ pc = "deploy"
    /\ \/ /\ lastSub' = Sub(0, "deploy", TRUE)
          /\ Return
          /\ Running
       \/ /\ lastSub' = Sub(0, "deploy", FALSE)
          /\ Raise("CalledProcessError")
    /\ UNCHANGED <<clock, runs, fsVars>>
    /\ UNCHANGED nonPipeVars

\* ----------------------------------------------------- build_version

\* the release the loop of build_versions is at
repo == get_repos[repoIdx]

InBuildVersion(st) ==
    /\ proc = "running"
    /\ pc = "build_versions"
    /\ stage = st

\* the next statement of build_version
GotoStage(st) ==
    /\ stage' = st
    /\ Running
    /\ UNCHANGED <<cliVars, pc, bvForce, repoIdx, gcIdx, gateLog>>

\* the loop of build_versions ending one release early
NextRelease_EarlySince ==
    /\ repoIdx' = repoIdx + 1
    /\ gcIdx' = 0
    /\ IF repoIdx + 1 < Len(get_repos)
       THEN /\ stage' = "entry"
            /\ pc' = pc
       ELSE /\ stage' = "none"
            /\ pc' = "since"
    /\ Running
    /\ UNCHANGED <<cliVars, bvForce, gateLog>>

\* build_version returned: the next release, or the end of the loop
NextRelease ==
    /\ repoIdx' = repoIdx + 1
    /\ gcIdx' = 0
    /\ IF repoIdx < Len(get_repos)
       THEN /\ stage' = "entry"
            /\ pc' = pc
       ELSE /\ stage' = "none"
            /\ pc' = "since"
    /\ Running
    /\ UNCHANGED <<cliVars, bvForce, gateLog>>

\* execute of an enrichment tool on the artifact of release v (after the mvn
\* run of get_parser_or_build, when the jar is missing): the tool exits
\* with 0 and has rewritten the artifact
ExecOk(v, tool) ==
    /\ parserJar' = TRUE
    /\ lastSub' = Sub(v, tool, TRUE)
    /\ meta' = [meta EXCEPT ![v] = [exists |-> TRUE, mtime |-> clock,
                                    content |-> @.content \cup {tool}]]

\* execute with the error of the tool caught: the process goes on at the
\* same statement
ExecFail_Swallowed(v, tool) ==
    /\ parserJar' = TRUE
    /\ lastSub' = Sub(v, tool, FALSE)
    /\ Running
    /\ UNCHANGED <<meta, cliVars, pc, bvVars>>

\* execute raises CalledProcessError: mvn failed, or the tool exited with a
\* non-zero status
ExecFail(v, tool) ==
    /\ \/ /\ ~parserJar
          /\ parserJar' = FALSE
          /\ lastSub' = Sub(0, "mvn", FALSE)
       \/ /\ parserJar' = TRUE
          /\ lastSub' = Sub(v, tool, FALSE)
    /\ Raise("CalledProcessError")
    /\ UNCHANGED meta

\* min(os.path.getmtime(jfr_file_name(gc_option)) for gc_option in list_gc_options())
generated_example_min_mtime == SetMin({sample[g] : g \in GCs})

\* the gate with >= for >
UpToDate_NonStrict(v, force) ==
    /\ ~force
    /\ meta[v].mtime >= Max(src[v], generated_example_min_mtime)

\* the test of the staleness gate, for an artifact that exists
UpToDate(v, force) ==
    /\ ~force
    /\ meta[v].mtime > Max(src[v], generated_example_min_mtime)

\* the skip path copying to the events-only snapshot
SkipCopyTarget_Events == "events"

\* the file the gate copies the artifact to when it skips the chain
SkipCopyTarget == "wo_examples"

\* create_jfr_if_needed and download_repo_if_not_exists: missing recordings
\* are made, a missing source tree is downloaded; the companion's tree is
\* not, the test "not graal_folder(graal_version)" being that of a path,
\* which is never empty
bv_entry ==
    /\ InBuildVersion("entry")
    /\ \E R \in SUBSET {g \in GCs : sample[g] < 0} :
        LET r == JfrRuns({g \in GCs : sample[g] < 0}, R)
        IN  /\ sample' = r.sample
            /\ \/ /\ r.raised
                  /\ Raise("CalledProcessError")
                  /\ UNCHANGED src
               \/ /\ ~r.raised
                  /\ src[repo] < 0
                  /\ \E e \in {"NameError", "CalledProcessError"} : Raise(e)
                  /\ UNCHANGED src
               \/ /\ ~r.raised
                  /\ IF src[repo] < 0
                     THEN \E t \in ArchiveTimes : src' = [src EXCEPT ![repo] = t]
                     ELSE src' = src
                  /\ GotoStage("gate")
    /\ UNCHANGED <<clock, runs, graalDir, meta, woex, evts, parserJar, openaiKey, lastSub>>
    /\ UNCHANGED nonPipeVars

\* the staleness gate: an artifact that is up to date is not rebuilt, any
\* other artifact is removed
bv_gate ==
    /\ InBuildVersion("gate")
    /\ IF meta[repo].exists
       THEN IF UpToDate(repo, bvForce)
            THEN /\ stage' = "skipcp"
                 /\ gateLog' = [gateLog EXCEPT ![repo] = "skip"]
                 /\ meta' = meta
            ELSE /\ stage' = "seed"
                 /\ gateLog' = [gateLog EXCEPT ![repo] = "stale"]
                 /\ meta' = [meta EXCEPT ![repo] = NoFile]
       ELSE /\ stage' = "seed"
            /\ gateLog' = [gateLog EXCEPT ![repo] = "fresh"]
            /\ meta' = meta
    /\ UNCHANGED <<clock, runs, sample, src, graalDir, woex, evts, parserJar, openaiKey, proc, exc,
                   lastSub, cliVars, pc, bvForce, repoIdx, gcIdx>>
    /\ UNCHANGED nonPipeVars

\* the copy of the skip path: execute(cp meta_file meta_wo_examples)
bv_skip_copy ==
    /\ InBuildVersion("skipcp")
    /\ \/ /\ lastSub' = Sub(repo, "cp", TRUE)
          /\ IF SkipCopyTarget = "wo_examples"
             THEN /\ woex' = [woex EXCEPT ![repo] =
                                [exists |-> TRUE, content |-> meta[repo].content]]
                  /\ evts' = evts
             ELSE /\ evts' = [evts EXCEPT ![repo] =
                                [exists |-> TRUE, content |-> meta[repo].content]]
                  /\ woex' = woex
          /\ NextRelease
       \/ /\ lastSub' = Sub(repo, "cp", FALSE)
          /\ Raise("CalledProcessError")
          /\ UNCHANGED <<woex, evts>>
    /\ UNCHANGED <<clock, runs, sample, src, graalDir, meta, parserJar, openaiKey>>
    /\ UNCHANGED nonPipeVars

\* the seed: the base metadata file of the source tree is copied to the artifact
bv_seed ==
    /\ InBuildVersion("seed")
    /\ \/ /\ lastSub' = Sub(repo, "seed", TRUE)
          /\ meta' = [meta EXCEPT ![repo] = [exists |-> TRUE, mtime |-> clock,
                                             content |-> {"seed"}]]
          /\ GotoStage("events")
       \/ /\ lastSub' = Sub(repo, "seed", FALSE)
          /\ Raise("CalledProcessError")
          /\ UNCHANGED meta
    /\ UNCHANGED <<clock, runs, sample, src, graalDir, woex, evts, parserJar, openaiKey>>
    /\ UNCHANGED nonPipeVars

\* build_version going from add_events past the events-only copy
add_events_SkipsSnapshot ==
    /\ InBuildVersion("events")
    /\ \/ /\ ExecOk(repo, "EventAdder")
          /\ GotoStage("descriptions")
       \/ ExecFail(repo, "EventAdder")
    /\ UNCHANGED <<clock, runs, sample, src, graalDir, woex, evts, openaiKey>>
    /\ UNCHANGED nonPipeVars

add_events ==
    /\ InBuildVersion("events")
    /\ \/ /\ ExecOk(repo, "EventAdder")
          /\ GotoStage("snapshot")
       \/ ExecFail(repo, "EventAdder")
    /\ UNCHANGED <<clock, runs, sample, src, graalDir, woex, evts, openaiKey>>
    /\ UNCHANGED nonPipeVars

\* build_version without the test of has_graal_version
bv_snapshot_AlwaysGraal ==
    /\ InBuildVersion("snapshot")
    /\ evts' = [evts EXCEPT ![repo] = [exists |-> TRUE, content |-> meta[repo].content]]
    /\ GotoStage("graal")
    /\ UNCHANGED <<clock, runs, sample, src, graalDir, meta, woex, parserJar, openaiKey, lastSub>>
    /\ UNCHANGED nonPipeVars

\* shutil.copy(meta_file, meta_file_name(repo, only_events=True)), and the
\* test of has_graal_version that follows it
bv_snapshot ==
    /\ InBuildVersion("snapshot")
    /\ evts' = [evts EXCEPT ![repo] = [exists |-> TRUE, content |-> meta[repo].content]]
    /\ GotoStage(IF has_graal_version(repo) THEN "graal" ELSE "descriptions")
    /\ UNCHANGED <<clock, runs, sample, src, graalDir, meta, woex, parserJar, openaiKey, lastSub>>
    /\ UNCHANGED nonPipeVars

add_graal_events ==
    /\ InBuildVersion("graal")
    /\ \/ /\ ExecOk(repo, "GraalEventAdder")
          /\ GotoStage("descriptions")
       \/ ExecFail(repo, "GraalEventAdder")
    /\ UNCHANGED <<clock, runs, sample, src, graalDir, woex, evts, openaiKey>>
    /\ UNCHANGED nonPipeVars

add_additional_descriptions ==
    /\ InBuildVersion("descriptions")
    /\ \/ /\ ExecOk(repo, "AdditionalDescriptionAdder")
          /\ GotoStage("copy_wo_examples")
       \/ ExecFail(repo, "AdditionalDescriptionAdder")
    /\ UNCHANGED <<clock, runs, sample, src, graalDir, woex, evts, openaiKey>>
    /\ UNCHANGED nonPipeVars

\* the without-examples copy is removed and copied again from the artifact
bv_copy_wo_examples ==
    /\ InBuildVersion("copy_wo_examples")
    /\ \/ /\ lastSub' = Sub(repo, "cp", TRUE)
          /\ woex' = [woex EXCEPT ![repo] =
                        [exists |-> TRUE, content |-> meta[repo].content]]
          /\ stage' = "examples"
          /\ gcIdx' = 1
          /\ Running
          /\ UNCHANGED <<cliVars, pc, bvForce, repoIdx, gateLog>>
       \/ /\ lastSub' = Sub(repo, "cp", FALSE)
          /\ woex' = [woex EXCEPT ![repo] = NoCopy]
          /\ Raise("CalledProcessError")
    /\ UNCHANGED <<clock, runs, sample, src, graalDir, meta, evts, parserJar, openaiKey>>
    /\ UNCHANGED nonPipeVars

\* add_examples: one run of the example adder per collector
add_examples ==
    /\ InBuildVersion("examples")
    /\ \/ /\ ExecOk(repo, "ExampleAdder")
          /\ IF gcIdx < Len(GC_OPTIONS)
             THEN /\ gcIdx' = gcIdx + 1
                  /\ stage' = stage
             ELSE /\ gcIdx' = 0
                  /\ stage' = "context"
          /\ Running
          /\ UNCHANGED <<cliVars, pc, bvForce, repoIdx, gateLog>>
       \/ ExecFail(repo, "ExampleAdder")
    /\ UNCHANGED <<clock, runs, sample, src, graalDir, woex, evts, openaiKey>>
    /\ UNCHANGED nonPipeVars

add_source_code_context ==
    /\ InBuildVersion("context")
    /\ \/ /\ ExecOk(repo, "SourceCodeContextAdder")
          /\ GotoStage("ai")
       \/ ExecFail(repo, "SourceCodeContextAdder")
    /\ UNCHANGED <<clock, runs, sample, src, graalDir, woex, evts, openaiKey>>
    /\ UNCHANGED nonPipeVars

\* add_ai_generated_descriptions returns at once without the key file or
\* for a version outside the list; build_version returns after it
add_ai_generated_descriptions ==
    /\ InBuildVersion("ai")
    /\ \/ /\ ~openaiKey \/ repo \notin VERSIONS_WITH_AI_DESCRIPTIONS
          /\ NextRelease
          /\ UNCHANGED <<meta, parserJar, lastSub>>
       \/ /\ openaiKey
          /\ repo \in VERSIONS_WITH_AI_DESCRIPTIONS
          /\ ExecOk(repo, "AIDescriptionAdder")
          /\ NextRelease
       \/ /\ openaiKey
          /\ repo \in VERSIONS_WITH_AI_DESCRIPTIONS
          /\ ExecFail(repo, "AIDescriptionAdder")
    /\ UNCHANGED <<clock, runs, sample, src, graalDir, woex, evts, openaiKey>>
    /\ UNCHANGED nonPipeVars

\* build_versions after its loop: the since adder reads and rewrites the
\* artifact of every release
since_adder ==
    /\ proc = "running"
    /\ pc = "since"
    /\ \/ /\ parserJar' = TRUE
          /\ lastSub' = Sub(0, "SinceAdder", TRUE)
          /\ meta' = [v \in Versions |->
                        [exists |-> TRUE, mtime |-> clock,
                         content |-> meta[v].content \cup {"SinceAdder"}]]
          /\ Return
          /\ Running
       \/ ExecFail(0, "SinceAdder")
    /\ UNCHANGED <<clock, runs, sample, src, graalDir, woex, evts, openaiKey>>
    /\ UNCHANGED nonPipeVars

\* --------------------------------------------------- the cache layer

FetchKeys == {"json", "zip"}
NoCache == [exists |-> FALSE, mtime |-> -1, body |-> "none"]
NoExc == [type |-> "none", code |-> 0]

\* What the server answers to a request: the file, a file that does not
\* unpack, a rejection, or a transfer that breaks off part-way.
Responses == {"ok", "corrupt", "http401", "http403", "cut"}

InitFetch ==
    /\ now = 0
    /\ files = [k \in FetchKeys |-> NoCache]
    /\ unpacked = "absent"
    /\ fproc = "idle"
    /\ fexc = NoExc
    /\ fpc = "none"
    /\ fkey = "none"
    /\ retention = 0
    /\ max_tries = 0
    /\ retries = 0
    /\ resp = "none"
    /\ printed = {}

FetchTick ==
    /\ now < MaxNow
    /\ now' = now + 1
    /\ UNCHANGED <<files, unpacked, fproc, fexc, fpc, fkey, retention, max_tries,
                   retries, resp, printed>>
    /\ UNCHANGED nonFetchVars

\* the test of download_file with < for <=
MustDownload_Strict(file, keep, t) ==
    \/ ~file.exists
    \/ file.mtime + keep < t

\* the test of download_file: the cache file is missing or too old
MustDownload(file, keep, t) ==
    \/ ~file.exists
    \/ file.mtime + keep <= t

\* download_file at time t with the server answering r: the cache file
\* afterwards, what the call got and the exception it raises. urlopen raises
\* an HTTPError before the cache file is opened; any exception reaches
\* "except ex", where the name ex is not defined.
download_file(file, keep, t, r) ==
    IF ~MustDownload(file, keep, t)
    THEN [file |-> file, resp |-> "hit", raises |-> NoExc]
    ELSE CASE r \in {"ok", "corrupt"} ->
                [file |-> [exists |-> TRUE, mtime |-> t,
                           body |-> IF r = "ok" THEN "good" ELSE "corrupt"],
                 resp |-> r, raises |-> NoExc]
           [] r \in {"http401", "http403"} ->
                [file |-> file, resp |-> r,
                 raises |-> [type |-> "NameError", code |-> 0]]
           [] r = "cut" ->
                [file |-> [exists |-> TRUE, mtime |-> t, body |-> "truncated"],
                 resp |-> r,
                 raises |-> [type |-> "NameError", code |-> 0]]

\* __main__: an HTTPError is caught, with the advice to store a token for
\* code 403, and the process exits with 1; any other exception is a traceback
main_handler(e) ==
    IF e.type = "HTTPError"
    THEN [proc |-> "exit1",
          printed |-> IF e.code = 403 THEN {"rate limit", "caught"} ELSE {"caught"}]
    ELSE [proc |-> "traceback", printed |-> {}]

\* the exception e leaves cli
FetchRaise(e) ==
    /\ fproc' = main_handler(e).proc
    /\ printed' = printed \cup main_handler(e).printed
    /\ fexc' = e
    /\ fpc' = "none"
    /\ fkey' = "none"
    /\ retention' = 0
    /\ max_tries' = 0
    /\ UNCHANGED retries

\* the call returned and the process ends
FetchExit ==
    /\ fproc' = "exit0"
    /\ fexc' = NoExc
    /\ fpc' = "none"
    /\ fkey' = "none"
    /\ retention' = 0
    /\ max_tries' = 0
    /\ UNCHANGED <<retries, printed>>

\* a process is started that calls download_file (as download_json does) or
\* download_zip (as download_latest_release does)
fetch_start ==
    /\ fproc # "running"
    /\ fproc' = "running"
    /\ fexc' = NoExc
    /\ resp' = "none"
    /\ printed' = {}
    /\ retries' = 0
    /\ \/ /\ fpc' = "download_file"
          /\ fkey' = "json"
          /\ retention' = CACHE_TIME
          /\ max_tries' = 0
       \/ /\ fpc' = "download_zip"
          /\ fkey' = "zip"
          /\ retention' = CACHE_TIME * 10
          /\ max_tries' = DEFAULT_MAX_TRIES
    /\ UNCHANGED <<now, files, unpacked>>
    /\ UNCHANGED nonFetchVars

\* the call of download_file by the process
fetch_file ==
    /\ fproc = "running"
    /\ fpc = "download_file"
    /\ \E r \in Responses :
        LET d == download_file(files[fkey], retention, now, r)
        IN  /\ files' = [files EXCEPT ![fkey] = d.file]
            /\ resp' = d.resp
            /\ IF d.raises = NoExc THEN FetchExit ELSE FetchRaise(d.raises)
    /\ UNCHANGED <<now, unpacked>>
    /\ UNCHANGED nonFetchVars

\* download_zip up to the unzip: download_file with a hundred times the
\* retention, and the test whether the directory exists
download_zip ==
    /\ fproc = "running"
    /\ fpc = "download_zip"
    /\ \E r \in Responses :
        LET d == download_file(files[fkey], retention * 100, now, r)
        IN  /\ files' = [files EXCEPT ![fkey] = d.file]
            /\ resp' = d.resp
            /\ IF d.raises # NoExc
               THEN FetchRaise(d.raises)
               ELSE IF unpacked = "absent"
                    THEN /\ fpc' = "unzip"
                         /\ UNCHANGED <<fproc, fexc, fkey, retention, max_tries,
                                        retries, printed>>
                    ELSE FetchExit
    /\ UNCHANGED <<now, unpacked>>
    /\ UNCHANGED nonFetchVars

\* download_zip without os.remove(path) before the retry
unzip_KeepsArchive ==
    /\ fproc = "running"
    /\ fpc = "unzip"
    /\ \/ /\ files[fkey].body = "good"
          /\ unpacked' = "complete"
          /\ FetchExit
       \/ /\ files[fkey].body # "good"
          /\ max_tries = 0
          /\ unpacked' \in {"absent", "partial"}
          /\ FetchRaise([type |-> "CalledProcessError", code |-> 0])
       \/ /\ files[fkey].body # "good"
          /\ max_tries > 0
          /\ unpacked' = "absent"
          /\ max_tries' = max_tries - 1
          /\ retries' = retries + 1
          /\ fpc' = "download_zip"
          /\ UNCHANGED <<fproc, fexc, fkey, retention, printed>>
    /\ UNCHANGED <<now, resp, files>>
    /\ UNCHANGED nonFetchVars

\* download_zip from the unzip on: a failed unzip with tries left removes
\* the directory and the archive and calls download_zip again
unzip ==
    /\ fproc = "running"
    /\ fpc = "unzip"
    /\ \/ /\ files[fkey].body = "good"
          /\ unpacked' = "complete"
          /\ FetchExit
          /\ UNCHANGED files
       \/ /\ files[fkey].body # "good"
          /\ max_tries = 0
          /\ unpacked' \in {"absent", "partial"}
          /\ FetchRaise([type |-> "CalledProcessError", code |-> 0])
          /\ UNCHANGED files
       \/ /\ files[fkey].body # "good"
          /\ max_tries > 0
          /\ unpacked' = "absent"
          /\ files' = [files EXCEPT ![fkey] = NoCache]
          /\ max_tries' = max_tries - 1
          /\ retries' = retries + 1
          /\ fpc' = "download_zip"
          /\ UNCHANGED <<fproc, fexc, fkey, retention, printed>>
    /\ UNCHANGED <<now, resp>>
    /\ UNCHANGED nonFetchVars

PipeNext ==
    \/ Tick
    \/ cli_start
    \/ cli_dispatch
    \/ cli_all
    \/ cli_clear
    \/ download
    \/ build_parser
    \/ create_jfr
    \/ build
    \/ deploy
    \/ bv_entry
    \/ bv_gate
    \/ bv_skip_copy
    \/ bv_seed
    \/ add_events
    \/ bv_snapshot
    \/ add_graal_events
    \/ add_additional_descriptions
    \/ bv_copy_wo_examples
    \/ add_examples
    \/ add_source_code_context
    \/ add_ai_generated_descriptions
    \/ since_adder

FetchNext ==
    \/ FetchTick
    \/ fetch_start
    \/ fetch_file
    \/ download_zip
    \/ unzip

\* ------------------------------------------------ the catalog functions

NoRepos == [raises |-> "none", repos |-> <<>>]
NoLatest == [raises |-> "none", name |-> <<>>]

\* the lists of at most n different elements of S
ListsOf(S, n) ==
    {l \in UNION {[1..k -> S] : k \in 0..n} :
        \A i, j \in 1..Len(l) : i # j => l[i] # l[j]}

RepoPool == {Repo_jdk, Repo_jdk8u, Repo_jdk11u, Repo_jdk17u, Repo_jdk21u, Repo_jdk8u_dev}
TagPool == {Tag_jdk_21_0_1, Tag_jdk_21_0_2, Tag_jdk_21_35, Tag_jdk_21_ga,
            Tag_jdk_22_1, Tag_jdk_17_0_9}
GraalPool == {Tag_vm_22, Tag_jdk_21_0_1, Tag_jdk_21_35, Tag_jdk_22_1, Tag_jdk_17_0_9}
PerPages == {1, 2}

\* no catalog function is under way
CatIdle ==
    /\ catFn = "none"
    /\ catDone = FALSE
    /\ orgJson = <<>>
    /\ reposOut = NoRepos
    /\ tagVersion = 0
    /\ repoTags = <<>>
    /\ latestOut = NoLatest
    /\ graalAll = <<>>
    /\ perPage = 0
    /\ graalOut = <<>>

\* one catalog function is about to be applied to what the API lists
InitCatalog ==
    /\ catDone = FALSE
    /\ reposOut = NoRepos
    /\ latestOut = NoLatest
    /\ graalOut = <<>>
    /\ \/ /\ catFn = "get_repos"
          /\ orgJson \in ListsOf(RepoPool, MaxList)
          /\ tagVersion = 0 /\ repoTags = <<>> /\ graalAll = <<>> /\ perPage = 0
       \/ /\ catFn = "latest"
          /\ tagVersion \in {21, 22}
          /\ repoTags \in ListsOf(TagPool, MaxList)
          /\ orgJson = <<>> /\ graalAll = <<>> /\ perPage = 0
       \/ /\ catFn = "graal"
          /\ graalAll \in ListsOf(GraalPool, MaxList)
          /\ perPage \in PerPages
          /\ orgJson = <<>> /\ tagVersion = 0 /\ repoTags = <<>>

call_get_repos ==
    /\ catFn = "get_repos"
    /\ ~catDone
    /\ catDone' = TRUE
    /\ reposOut' = GetRepos(orgJson)
    /\ UNCHANGED <<catFn, orgJson, tagVersion, repoTags, latestOut, graalAll, perPage,
                   graalOut>>
    /\ UNCHANGED nonCatVars

call_get_latest_release_name ==
    /\ catFn = "latest"
    /\ ~catDone
    /\ catDone' = TRUE
    /\ latestOut' = get_latest_release_name(tagVersion, repoTags)
    /\ UNCHANGED <<catFn, orgJson, reposOut, tagVersion, repoTags, graalAll, perPage,
                   graalOut>>
    /\ UNCHANGED nonCatVars

call_get_graal_versions ==
    /\ catFn = "graal"
    /\ ~catDone
    /\ catDone' = TRUE
    /\ graalOut' = GetGraalVersions(FetchedTags(graalAll, perPage, 1))
    /\ UNCHANGED <<catFn, orgJson, reposOut, tagVersion, repoTags, latestOut, graalAll,
                   perPage>>
    /\ UNCHANGED nonCatVars

CatalogNext ==
    \/ call_get_repos
    \/ call_get_latest_release_name
    \/ call_get_graal_versions

\* ------------------------------------------------------ deploy_github

\* the files deploy_github copies to the temporary directory: paths
Staged ==
    {<<"jfreventcollector.jar", 0>>, <<"jfreventcollection.jar", 0>>}
    \cup {<<"metadata.xml", v>> : v \in Versions}
    \cup {<<"metadata_wo_examples.xml", v>> : v \in Versions}

NoRelease == [exists |-> FALSE, notes |-> "none", assets |-> {}]

\* the texts the first section of CHANGELOG.md can hold
Changelogs == {"notes 1", "notes 2"}

\* What the gh commands do on the host, which is reachable (up) or not:
\* create fails when a release exists under the tag; edit and upload fail
\* when none exists; upload --clobber replaces the assets of the same names.
GhCreate(rel, up) ==
    IF up /\ ~rel.exists
    THEN [ok |-> TRUE, rel |-> [exists |-> TRUE, notes |-> changelog, assets |-> Staged]]
    ELSE [ok |-> FALSE, rel |-> rel]

GhEdit(rel, up) ==
    IF up /\ rel.exists
    THEN [ok |-> TRUE, rel |-> [rel EXCEPT !.notes = changelog]]
    ELSE [ok |-> FALSE, rel |-> rel]

GhUpload(rel, up) ==
    IF up /\ rel.exists
    THEN [ok |-> TRUE, rel |-> [rel EXCEPT !.assets = @ \cup Staged]]
    ELSE [ok |-> FALSE, rel |-> rel]

Ran(cmd, r, up, captured) ==
    [cmd |-> cmd, ok |-> r.ok, up |-> up, captured |-> captured]

PubIdle ==
    /\ ghRelease = NoRelease
    /\ changelog = "none"
    /\ created = 0
    /\ localReady = FALSE
    /\ deploys = 0
    /\ dproc = "idle"
    /\ dpc = "none"
    /\ tiers = <<>>

InitPublish ==
    /\ ghRelease = NoRelease
    /\ changelog = "none"
    /\ created = 0
    /\ localReady \in BOOLEAN
    /\ deploys = 0
    /\ dproc = "idle"
    /\ dpc = "none"
    /\ tiers = <<>>

\* deploy_github returned and the process ends
DeployReturn ==
    /\ dproc' = "exit0"
    /\ dpc' = "none"

\* a process is started that calls deploy_github
deploy_start ==
    /\ dproc # "running"
    /\ deploys < MaxRuns
    /\ deploys' = deploys + 1
    /\ dproc' = "running"
    /\ dpc' = "stage"
    /\ tiers' = <<>>
    /\ changelog' \in Changelogs
    /\ UNCHANGED <<ghRelease, created, localReady>>
    /\ UNCHANGED nonPubVars

\* deploy_github up to the first gh command: build() when the jar is
\* missing, which makes the jars and the metadata files or raises; then the
\* copies into the temporary directory
deploy_stage ==
    /\ dproc = "running"
    /\ dpc = "stage"
    /\ \/ /\ localReady' = TRUE
          /\ dpc' = "create"
          /\ UNCHANGED dproc
       \/ /\ ~localReady
          /\ localReady' = FALSE
          /\ dproc' = "traceback"
          /\ dpc' = "none"
    /\ UNCHANGED <<ghRelease, changelog, created, deploys, tiers>>
    /\ UNCHANGED nonPubVars

\* gh release create with a failure ending the process
deploy_create_NoFallback ==
    /\ dproc = "running"
    /\ dpc = "create"
    /\ \E up \in BOOLEAN :
        LET r == GhCreate(ghRelease, up)
        IN  /\ ghRelease' = r.rel
            /\ created' = IF r.ok THEN created + 1 ELSE created
            /\ tiers' = Append(tiers, Ran("create", r, up, TRUE))
            /\ IF r.ok THEN DeployReturn
               ELSE dproc' = "traceback" /\ dpc' = "none"
    /\ UNCHANGED <<changelog, localReady, deploys>>
    /\ UNCHANGED nonPubVars

\* gh release create; CalledProcessError leads to the edit and upload
deploy_create ==
    /\ dproc = "running"
    /\ dpc = "create"
    /\ \E up \in BOOLEAN :
        LET r == GhCreate(ghRelease, up)
        IN  /\ ghRelease' = r.rel
            /\ created' = IF r.ok THEN created + 1 ELSE created
            /\ tiers' = Append(tiers, Ran("create", r, up, TRUE))
            /\ IF r.ok THEN DeployReturn
               ELSE dpc' = "edit" /\ UNCHANGED dproc
    /\ UNCHANGED <<changelog, localReady, deploys>>
    /\ UNCHANGED nonPubVars

\* gh release edit, the first command of the shell line "edit; upload": the
\* shell runs the upload whatever the edit's exit status
deploy_edit ==
    /\ dproc = "running"
    /\ dpc \in {"edit", "os_edit"}
    /\ \E up \in BOOLEAN :
        LET r == GhEdit(ghRelease, up)
        IN  /\ ghRelease' = r.rel
            /\ tiers' = Append(tiers, Ran("edit", r, up, dpc = "edit"))
    /\ dpc' = IF dpc = "edit" THEN "upload" ELSE "os_upload"
    /\ UNCHANGED <<changelog, created, localReady, deploys, dproc>>
    /\ UNCHANGED nonPubVars

\* gh release upload --clobber, the last command of the captured shell
\* line: its exit status is that of the line, and CalledProcessError leads
\* to os.system of the same line
deploy_upload ==
    /\ dproc = "running"
    /\ dpc = "upload"
    /\ \E up \in BOOLEAN :
        LET r == GhUpload(ghRelease, up)
        IN  /\ ghRelease' = r.rel
            /\ tiers' = Append(tiers, Ran("upload", r, up, TRUE))
            /\ IF r.ok THEN DeployReturn
               ELSE dpc' = "os_edit" /\ UNCHANGED dproc
    /\ UNCHANGED <<changelog, created, localReady, deploys>>
    /\ UNCHANGED nonPubVars

\* the upload of the line run by os.system, whose status is not looked at
deploy_os_upload ==
    /\ dproc = "running"
    /\ dpc = "os_upload"
    /\ \E up \in BOOLEAN :
        LET r == GhUpload(ghRelease, up)
        IN  /\ ghRelease' = r.rel
            /\ tiers' = Append(tiers, Ran("upload", r, up, FALSE))
    /\ DeployReturn
    /\ UNCHANGED <<changelog, created, localReady, deploys>>
    /\ UNCHANGED nonPubVars

PublishNext ==
    \/ deploy_start
    \/ deploy_stage
    \/ deploy_create
    \/ deploy_edit
    \/ deploy_upload
    \/ deploy_os_upload

\* ------------------------------------------------- the cache aliases

\* the aliases under CACHE_DIR: repo_folder of jdk21u, graal_folder of the
\* companion of release 21
RepoAlias == "jdk21u"
GraalAlias == "graal"
Aliases == {RepoAlias, GraalAlias}

\* the tags the release train publishes one after the other
RepoTags == {Tag_jdk_21_0_1, Tag_jdk_21_0_2}

\* the tag of the companion of release 21
GraalTag == Tag_jdk_21_35

\* the archives the two functions unpack
AliasTags == RepoTags \cup {GraalTag}

NoLink == [exists |-> FALSE, target |-> <<>>, entry |-> 0]

\* os.path.exists of an alias follows the link
PathExists(l) == link[l].exists /\ link[l].target \in dirs

AliasIdle ==
    /\ link = [l \in Aliases |-> NoLink]
    /\ dirs = {}
    /\ entries = [t \in AliasTags |-> 0]
    /\ hostLatest = Tag_jdk_21_0_1
    /\ afn = "none"
    /\ aproc = "none"
    /\ apc = "none"
    /\ apath = <<>>
    /\ acalls = 0
    /\ existed = [l \in Aliases |-> FALSE]

InitAlias ==
    /\ link = [l \in Aliases |-> NoLink]
    /\ dirs = {}
    /\ entries = [t \in AliasTags |-> 0]
    /\ hostLatest \in RepoTags
    /\ afn = "none"
    /\ aproc = "none"
    /\ apc = "none"
    /\ apath = <<>>
    /\ acalls = 0
    /\ existed = [l \in Aliases |-> FALSE]

\* the release train publishes another tag between two calls
host_publishes ==
    /\ aproc # "running"
    /\ acalls < MaxCalls
    /\ hostLatest' \in RepoTags \ {hostLatest}
    /\ UNCHANGED <<link, dirs, entries, afn, aproc, apc, apath, acalls, existed>>
    /\ UNCHANGED nonAliasVars

\* download() or download_repo_if_not_exists calls download_latest_release
\* or download_graal_version
alias_call ==
    /\ aproc # "running"
    /\ acalls < MaxCalls
    /\ afn' \in {"latest", "graal"}
    /\ aproc' = "running"
    /\ apc' = "download_zip"
    /\ apath' = <<>>
    /\ acalls' = acalls + 1
    /\ UNCHANGED <<link, dirs, entries, hostLatest, existed>>
    /\ UNCHANGED nonAliasVars

\* download_zip returns the directory of the archive, unpacking it when it
\* is not there, or raises (HTTPError, or CalledProcessError of unzip after
\* the last try); the archive decides how many top-level entries the
\* directory has
alias_download_zip ==
    /\ aproc = "running"
    /\ apc = "download_zip"
    /\ \E ok \in BOOLEAN :
          LET tag == IF afn = "latest" THEN hostLatest ELSE GraalTag IN
          IF ok
          THEN /\ dirs' = dirs \cup {tag}
               /\ IF tag \in dirs
                  THEN entries' = entries
                  ELSE \E n \in 0..MaxEntries : entries' = [entries EXCEPT ![tag] = n]
               /\ apath' = tag
               /\ apc' = "remove"
               /\ UNCHANGED <<afn, aproc>>
          ELSE /\ aproc' = "exit1"
               /\ afn' = "none"
               /\ apc' = "none"
               /\ UNCHANGED <<dirs, entries, apath>>
    /\ UNCHANGED <<link, hostLatest, acalls, existed>>
    /\ UNCHANGED nonAliasVars

\* download_latest_release: os.remove(result_link), FileNotFoundError
\* passed over; download_graal_version: os.unlink(result_link) if
\* os.path.exists(result_link)
alias_remove ==
    /\ aproc = "running"
    /\ apc = "remove"
    /\ LET l == IF afn = "latest" THEN RepoAlias ELSE GraalAlias IN
       link' = IF afn = "latest" \/ PathExists(l)
               THEN [link EXCEPT ![l] = NoLink]
               ELSE link
    /\ apc' = "symlink"
    /\ UNCHANGED <<dirs, entries, hostLatest, afn, aproc, apath, acalls, existed>>
    /\ UNCHANGED nonAliasVars

\* next(Path(path).glob("*")): StopIteration for a directory without
\* entries, else the entry the directory lists first, whichever that is
GlobFirst(tag) == 1..entries[tag]

\* os.symlink(next(Path(path).glob("*")), result_link): StopIteration when
\* the directory is empty, FileExistsError when the link is still there
alias_symlink ==
    /\ aproc = "running"
    /\ apc = "symlink"
    /\ LET l == IF afn = "latest" THEN RepoAlias ELSE GraalAlias IN
       IF GlobFirst(apath) = {} \/ link[l].exists
       THEN /\ aproc' = "exit1"
            /\ UNCHANGED <<link, existed>>
       ELSE /\ \E e \in GlobFirst(apath) :
                  link' = [link EXCEPT ![l] =
                             [exists |-> TRUE, target |-> apath, entry |-> e]]
            /\ existed' = [existed EXCEPT ![l] = TRUE]
            /\ aproc' = "exit0"
    /\ afn' = "none"
    /\ apc' = "none"
    /\ UNCHANGED <<dirs, entries, hostLatest, apath, acalls>>
    /\ UNCHANGED nonAliasVars

AliasNext ==
    \/ host_publishes
    \/ alias_call
    \/ alias_download_zip
    \/ alias_remove
    \/ alias_symlink

vars == <<pipeVars, fetchVars, catVars, pubVars, aliasVars>>

\* the pipeline: command dispatch and build_versions
Init == InitPipe /\ InitFetch /\ CatIdle /\ PubIdle /\ AliasIdle

Next == PipeNext

Spec == Init /\ [][Next]_vars

\* the cache layer: download_file and download_zip
InitCache == InitPipe /\ ~openaiKey /\ InitFetch /\ CatIdle /\ PubIdle /\ AliasIdle

NextCache == FetchNext

SpecFetch == InitCache /\ [][NextCache]_vars

\* the catalog: get_repos, get_latest_release_name_and_zip_url,
\* get_graal_versions
InitCat == InitPipe /\ ~openaiKey /\ InitFetch /\ InitCatalog /\ PubIdle /\ AliasIdle

NextCat == CatalogNext

SpecCatalog == InitCat /\ [][NextCat]_vars

\* the release on the host: deploy_github
InitPub == InitPipe /\ ~openaiKey /\ InitFetch /\ CatIdle /\ InitPublish /\ AliasIdle

NextPub == PublishNext

SpecPublish == InitPub /\ [][NextPub]_vars

\* the cache aliases: download_latest_release, download_graal_version
InitAl == InitPipe /\ ~openaiKey /\ InitFetch /\ CatIdle /\ PubIdle /\ InitAlias

NextAl == AliasNext

SpecAlias == InitAl /\ [][NextAl]_vars

\* ------------------------------------------------------------ claims

\* the tools of the chain of release v
ChainTags(v) ==
    {"seed", "EventAdder", "AdditionalDescriptionAdder", "ExampleAdder",
     "SourceCodeContextAdder"}
    \cup (IF has_graal_version(v) THEN {"GraalEventAdder"} ELSE {})
    \cup (IF openaiKey /\ v \in VERSIONS_WITH_AI_DESCRIPTIONS
          THEN {"AIDescriptionAdder"} ELSE {})

\* the minimum of the mtimes of the sample recordings
MinSampleMtime == CHOOSE m \in {sample[g] : g \in GCs} : \A g \in GCs : m <= sample[g]

AtStage(st) == proc = "running" /\ pc = "build_versions" /\ stage = st

\* C1: for a release whose artifact exists, with artifact mtime A, source
\* mtime S and minimum sample mtime M, the gate starts the chain at the seed
\* iff force is set or A <= max(S, M); otherwise the process goes to the skip
\* path, from which no stage of the chain is entered.
C1_GateRunsIffForcedOrStale ==
    [][ /\ (AtStage("gate") /\ meta[repo].exists /\ stage' # stage) =>
              /\ stage' \in {"seed", "skipcp"}
              /\ (stage' = "seed") <=>
                    (bvForce \/ meta[repo].mtime <= Max(src[repo], MinSampleMtime))
        /\ AtStage("skipcp") =>
              /\ stage' \in {"skipcp", "entry", "none"}
              /\ meta' = meta
      ]_vars

\* the gate has skipped one release and rebuilt another whose artifact existed
C1_Witness ==
    /\ ~bvForce
    /\ \E v, w \in Versions : gateLog[v] = "skip" /\ gateLog[w] = "stale"

\* the copy of the skip path has succeeded
SkipCopied == AtStage("skipcp") /\ proc' = "running" /\ stage' # stage

CopyOf(v) == [exists |-> TRUE, content |-> meta[v].content]

\* C2 as stated: when the gate skips a release, the only file written is the
\* events-only snapshot, which becomes a copy of the artifact.
C2_SkipWritesEventsSnapshot ==
    [][ SkipCopied =>
          /\ evts' = [evts EXCEPT ![repo] = CopyOf(repo)]
          /\ woex' = woex
          /\ meta' = meta
      ]_vars

\* C2, amended: when the gate skips a release and the copy succeeds, the only
\* file written is the without-examples variant, which becomes a copy of the
\* artifact; the artifact, the events-only snapshot and the other files are
\* unchanged.
C2_SkipWritesWoExamples ==
    [][ SkipCopied =>
          /\ woex' = [woex EXCEPT ![repo] = CopyOf(repo)]
          /\ woex'[repo].content = meta'[repo].content
          /\ evts' = evts
          /\ meta' = meta
          /\ UNCHANGED <<sample, src, parserJar, openaiKey>>
      ]_vars

\* a skipped release whose without-examples variant equals the artifact and
\* whose events-only snapshot does not
C2_Witness ==
    \E v \in Versions :
        /\ gateLog[v] = "skip"
        /\ lastSub = Sub(v, "cp", TRUE)
        /\ woex[v] = CopyOf(v)
        /\ evts[v] # CopyOf(v)

\* C3: an artifact is treated as up to date (its chain skipped by a run
\* without force) only if every applicable stage of the chain completed on it.
C3_SkippedArtifactIsComplete ==
    (AtStage("skipcp") /\ ~bvForce) => ChainTags(repo) \subseteq meta[repo].content

\* C4: a command requested with force is dispatched (the call is made), and
\* a forced build_versions starts every existing release's chain at the seed.
C4_ForceBypassesGate ==
    [][ /\ ( /\ proc = "running"
             /\ pc = "dispatch"
             /\ cmdIdx <= Len(commands)
             /\ commands[cmdIdx] \in forced
             /\ pc' # pc ) => proc' = "running"
        /\ (AtStage("gate") /\ bvForce) => stage' \in {"gate", "seed"}
      ]_vars

\* every release has reached a terminal state of build_version: skipped by
\* the gate, or its chain complete
AllTerminal ==
    /\ repoIdx = Len(get_repos) + 1
    /\ \A v \in Versions :
        \/ gateLog[v] = "skip"
        \/ /\ gateLog[v] \in {"fresh", "stale"}
           /\ ChainTags(v) \subseteq meta[v].content

\* C5: the since adder is started only when every release is terminal, and
\* build_versions returns only from one successful run of it.
C5_SinceAfterAllReleases ==
    [][ /\ (proc' = "running" /\ pc' = "since") => AllTerminal'
        /\ (lastSub'.tool = "SinceAdder" /\ lastSub' # lastSub) => pc = "since"
        /\ (pc = "since" /\ proc' = "running" /\ pc' # pc) =>
              /\ lastSub' = Sub(0, "SinceAdder", TRUE)
              /\ pc' \in {"dispatch", "all"}
        /\ (pc = "build_versions" /\ proc' = "running") =>
              pc' \in {"build_versions", "since"}
      ]_vars

\* the since adder is about to start after one release was skipped and
\* another rebuilt
C5_Witness ==
    /\ proc = "running"
    /\ pc = "since"
    /\ \E v, w \in Versions : gateLog[v] = "skip" /\ gateLog[w] \in {"fresh", "stale"}

\* C6: a subprocess of a running process that exits with a non-zero status
\* ends the process with CalledProcessError, and an ended process changes no
\* file: whatever runs next belongs to a new process.
C6_ToolFailureAborts ==
    [][ /\ (proc = "running" /\ ~lastSub'.ok) =>
              /\ proc' = "traceback"
              /\ exc' = "CalledProcessError"
              /\ pc' = "none"
        /\ (proc = "traceback") =>
              /\ UNCHANGED fsVars
              /\ proc' = "traceback" \/ runs' = runs + 1
      ]_vars

\* the event adder failed for the first release: the later release has no
\* artifact and neither the since adder nor deploy ran
C6_Witness ==
    /\ proc = "traceback"
    /\ exc = "CalledProcessError"
    /\ lastSub = Sub(get_repos[1], "EventAdder", FALSE)
    /\ ~meta[get_repos[2]].exists
    /\ \A v \in Versions : "SinceAdder" \notin meta[v].content

\* C7: a retry of download_zip starts with the archive and the directory
\* deleted, so that it downloads again; download_zip raises the error of the
\* unzip only after DEFAULT_MAX_TRIES retries, and never retries more often.
C7_RetriesFromCleanState ==
    /\ retries <= DEFAULT_MAX_TRIES
    /\ (fproc = "running" /\ fpc = "download_zip" /\ retries > 0) =>
          /\ ~files["zip"].exists
          /\ unpacked = "absent"
    /\ (fproc = "running" /\ fpc = "unzip" /\ retries > 0) =>
          /\ resp \in {"ok", "corrupt"}
          /\ files["zip"].exists
          /\ unpacked = "absent"
    /\ (fproc = "traceback" /\ fexc.type = "CalledProcessError") =>
          retries = DEFAULT_MAX_TRIES

\* every unzip failed: the process ended after the last retry
C7_Witness ==
    /\ fproc = "traceback"
    /\ fexc.type = "CalledProcessError"
    /\ retries = DEFAULT_MAX_TRIES
    /\ resp = "corrupt"

\* a call of download_file by the process, and the retention it is given
FileCall ==
    /\ fproc = "running"
    /\ fpc \in {"download_file", "download_zip"}
    /\ fpc' # fpc

Keep == IF fpc = "download_zip" THEN retention * 100 ELSE retention

Age == now - files[fkey].mtime

\* C8 as stated: download_file returns the cached path without a download
\* iff the entry exists and not (now - fetchedAt > retention); a download
\* that succeeds stamps the entry with the time of the download.
C8_HitIffAgeAtMostRetention ==
    [][ FileCall =>
          /\ (resp' = "hit") <=> (files[fkey].exists /\ ~(Age > Keep))
          /\ resp' \in {"ok", "corrupt"} => files'[fkey].mtime = now
      ]_vars

\* C8, amended: download_file returns the cached path without a download iff
\* the entry exists and now - fetchedAt < retention (an entry whose age equals
\* the retention is stale); otherwise it attempts the download, and a download
\* that succeeds stamps the entry with the time of the download.
C8_HitIffAgeBelowRetention ==
    [][ FileCall =>
          /\ (resp' = "hit") <=> (files[fkey].exists /\ Age < Keep)
          /\ resp' = "hit" => files' = files
          /\ resp' \in {"ok", "corrupt"} =>
                files'[fkey].exists /\ files'[fkey].mtime = now
      ]_vars

\* a cache hit on the oldest entry that is still fresh
C8_Witness ==
    /\ fproc = "exit0"
    /\ resp = "hit"
    /\ files["json"].exists
    /\ now - files["json"].mtime = CACHE_TIME - 1

\* C9: after a rejection with HTTP 401 the rejection is logged and
\* download_file has returned to its caller.
C9_Http401LoggedNotFatal ==
    resp = "http401" =>
        /\ fproc \in {"running", "exit0"}
        /\ "check your GitHub token" \in printed

\* C10: a rejection with HTTP 403 reaches the handler of __main__ as an
\* HTTPError, which prints the advice to store a token and exits with 1.
C10_Http403ReachesHandler ==
    resp = "http403" =>
        /\ fproc = "exit1"
        /\ fexc = [type |-> "HTTPError", code |-> 403]
        /\ "rate limit" \in printed

\* a companion version exists for release v: some fetched tag carries the
\* marker and the ordinal v
CompanionResolved(v) ==
    \E i \in 1..Len(GraalTags) :
        /\ StartsWith(GraalTags[i], JDK_DASH)
        /\ TagVersion(GraalTags[i]) = v

\* C18: the chain goes from the events-only copy to the companion stage iff
\* a companion version is resolved for the release, and the companion tool
\* runs only there, for a release with a companion whose chain the gate did
\* not skip.
C18_CompanionStageIffResolved ==
    [][ /\ (AtStage("snapshot") /\ stage' # stage) =>
              /\ stage' \in {"graal", "descriptions"}
              /\ (stage' = "graal") <=> CompanionResolved(repo)
        /\ (lastSub'.tool = "GraalEventAdder" /\ lastSub' # lastSub) =>
              /\ AtStage("graal")
              /\ lastSub'.v = repo
              /\ CompanionResolved(repo)
              /\ gateLog[repo] \in {"fresh", "stale"}
        /\ (proc' = "running" /\ stage' = "graal") => stage \in {"snapshot", "graal"}
        /\ \A v \in Versions :
              ("GraalEventAdder" \in meta'[v].content) => CompanionResolved(v)
      ]_vars

\* the chain of the second release is past the companion stage: the companion
\* tool has run for the first release, which has a companion, and not for
\* the second, which has none
C18_Witness ==
    /\ AtStage("descriptions")
    /\ repoIdx = 2
    /\ CompanionResolved(get_repos[1])
    /\ ~CompanionResolved(get_repos[2])
    /\ gateLog[get_repos[1]] \in {"fresh", "stale"}
    /\ "GraalEventAdder" \in meta[get_repos[1]].content
    /\ "GraalEventAdder" \notin meta[get_repos[2]].content

\* C19: a build_version without force, whose artifact is older than some
\* sample recording, starts the chain at the seed.
C19_AnyNewerSampleRebuilds ==
    [][ ( /\ AtStage("gate")
          /\ ~bvForce
          /\ meta[repo].exists
          /\ \E g \in GCs : sample[g] > meta[repo].mtime ) => stage' = "seed"
      ]_vars

\* the statements of the chain, in the order of build_version
ChainOrder ==
    <<"seed", "events", "snapshot", "graal", "descriptions", "copy_wo_examples",
      "examples", "context", "ai">>

\* the statement that follows statement st in the chain of release v
StageAfter(v, st) ==
    CASE st = "seed" -> "events"
      [] st = "events" -> "snapshot"
      [] st = "snapshot" -> IF CompanionResolved(v) THEN "graal" ELSE "descriptions"
      [] st = "graal" -> "descriptions"
      [] st = "descriptions" -> "copy_wo_examples"
      [] st = "copy_wo_examples" -> "examples"
      [] st = "examples" -> "context"
      [] st = "context" -> "ai"
      [] OTHER -> "entry"

\* the tools that have completed on the artifact of release v when the
\* chain is at statement st, the example adder having run for n collectors
DoneBefore(v, st, n) ==
    CASE st = "seed" -> {}
      [] st = "events" -> {"seed"}
      [] st \in {"snapshot", "graal"} -> {"seed", "EventAdder"}
      [] OTHER ->
           {"seed", "EventAdder"}
           \cup (IF CompanionResolved(v) THEN {"GraalEventAdder"} ELSE {})
           \cup (IF st # "descriptions" THEN {"AdditionalDescriptionAdder"} ELSE {})
           \cup (IF st \in {"context", "ai"} \/ (st = "examples" /\ n > 1)
                 THEN {"ExampleAdder"} ELSE {})
           \cup (IF st = "ai" THEN {"SourceCodeContextAdder"} ELSE {})

\* C20: the statements of a chain follow each other in the order of
\* build_version, the companion stage only for a release with a companion;
\* a stage is entered only after the subprocess of the previous one exited
\* with 0, and on entering it the artifact carries exactly the tools of the
\* stages before it; the chain ends after the last stage.
C20_StagesInOrder ==
    [][ \A i \in 1..Len(ChainOrder) :
          LET st == ChainOrder[i]
          IN  /\ (AtStage(st) /\ proc' = "running" /\ stage' # stage) =>
                    /\ lastSub'.ok
                    /\ IF st = "ai"
                       THEN stage' \in {"entry", "none"} /\ repoIdx' = repoIdx + 1
                       ELSE stage' = StageAfter(repo, st) /\ repoIdx' = repoIdx
              /\ (proc' = "running" /\ pc' = "build_versions" /\ stage' = st
                    /\ st # "seed") =>
                    /\ meta'[get_repos[repoIdx']].exists
                    /\ meta'[get_repos[repoIdx']].content =
                          DoneBefore(get_repos[repoIdx'], st, gcIdx')
      ]_vars

\* a chain has reached its last statement with a companion stage behind it
C20_Witness ==
    /\ AtStage("ai")
    /\ CompanionResolved(repo)
    /\ meta[repo].content = DoneBefore(repo, "ai", 0)
    /\ lastSub = Sub(repo, "SourceCodeContextAdder", TRUE)

\* the name of the release train of ordinal n
TrainName(n) == JDK \o IntStr(n) \o <<"u">>

\* the ordinals of the release trains in the list json, from the minimum on
Discovered(json) ==
    {n \in MIN_VERSION..99 : \E i \in 1..Len(json) : json[i] = TrainName(n)}

GetReposReturned == catFn = "get_repos" /\ catDone /\ reposOut.raises = "none"

OrdinalsOut == [i \in 1..Len(reposOut.repos) |-> reposOut.repos[i].version]

C15_OrdinalsGapless ==
    GetReposReturned =>
        /\ Range(OrdinalsOut) = MIN_VERSION..OrdinalsOut[Len(OrdinalsOut)]
        /\ Cardinality(Range(OrdinalsOut)) = Len(OrdinalsOut)

\* C15, amended: the ordinals get_repos returns are those of the release
\* trains of the list from the minimum on and the tip, max + 1, each once;
\* they are the integers from the smallest of them to the tip iff the trains
\* of the list have consecutive ordinals.
C15_OrdinalsOfListAndTip ==
    GetReposReturned =>
        LET D == Discovered(orgJson)
            O == Range(OrdinalsOut)
        IN  /\ D # {}
            /\ O = D \cup {SetMax(D) + 1}
            /\ Cardinality(O) = Len(OrdinalsOut)
            /\ \A v \in O : v >= MIN_VERSION
            /\ (O = SetMin(O)..SetMax(O)) <=> (D = SetMin(D)..SetMax(D))

\* a catalog with a gap, which does not start at the minimum
C15_Witness ==
    /\ GetReposReturned
    /\ OrdinalsOut = <<17, 21, 22>>

\* the tags of the list whose name starts with jdk-<version>
Candidates == {i \in 1..Len(repoTags) : StartsWith(repoTags[i], JDK_DASH \o IntStr(tagVersion))}

DottedCandidates == {i \in Candidates : \E k \in 1..Len(repoTags[i]) : repoTags[i][k] = "."}

\* C16: of the tags whose name starts with jdk-<ordinal>, the first in the
\* order of the list with a "." in its name is returned, the first in the
\* order of the list when no name has one; tags of other ordinals are not
\* considered.
C16_FirstDottedElseFirst ==
    (catFn = "latest" /\ catDone /\ Candidates # {}) =>
        /\ latestOut.raises = "none"
        /\ latestOut.name =
              repoTags[IF DottedCandidates # {} THEN SetMin(DottedCandidates)
                       ELSE SetMin(Candidates)]

\* the list holds an undotted tag, then two dotted tags of which the second
\* is the higher version
C16_Witness ==
    /\ catFn = "latest"
    /\ catDone
    /\ tagVersion = 21
    /\ repoTags = <<Tag_jdk_21_35, Tag_jdk_21_0_1, Tag_jdk_21_0_2>>
    /\ latestOut.name = Tag_jdk_21_0_1

\* the tags the loop collects: the pages in order, at most GRAAL_TAG_PAGES
Collected ==
    SubSeq(graalAll, 1, IF Len(graalAll) <= GRAAL_TAG_PAGES * perPage
                        THEN Len(graalAll) ELSE GRAAL_TAG_PAGES * perPage)

\* the name carries the marker and the ordinal v
CarriesOrdinal(name, v) ==
    LET p == JDK_DASH \o IntStr(v)
    IN  /\ StartsWith(name, p)
        /\ Len(name) = Len(p) \/ name[Len(p) + 1] \in {"+", "."}

\* C17: get_graal_versions returns at most one companion version for an
\* ordinal, one exactly for the ordinals some collected tag carries, built
\* from the first such tag in fetch order.
C17_FirstTagPerOrdinal ==
    (catFn = "graal" /\ catDone) =>
        \A v \in MIN_VERSION..99 :
            LET of == {k \in 1..Len(graalOut) : graalOut[k].jdk_version = v}
                tagged == {i \in 1..Len(Collected) : CarriesOrdinal(Collected[i], v)}
            IN  /\ Cardinality(of) <= 1
                /\ (of # {}) <=> (tagged # {})
                /\ \A k \in of : graalOut[k].tag = Collected[SetMin(tagged)]

\* two tags of ordinal 21 on different pages: the first was kept
C17_Witness ==
    /\ catFn = "graal"
    /\ catDone
    /\ perPage = 1
    /\ graalAll = <<Tag_jdk_21_35, Tag_vm_22, Tag_jdk_21_0_1>>
    /\ graalOut = <<[jdk_version |-> 21, tag |-> Tag_jdk_21_35]>>

\* the release on the host is what deploy_github makes of the inputs of
\* the process: an earlier call with the same inputs has left it
PublishedTheseInputs ==
    /\ ghRelease.exists
    /\ ghRelease.notes = changelog
    /\ ghRelease.assets = Staged

\* the host was reachable for every gh command of the list t
AllUp(t) == \A i \in 1..Len(t) : t[i].up

\* C11: there is never more than one release under the tag, and its assets
\* are the staged files; a call of deploy_github on a release that an
\* earlier call with the same inputs has left changes nothing on the host;
\* no failure of a gh command ends the process; and a call during which the
\* host was reachable returns with the release made of its inputs.
C11_PublishIdempotent ==
    [][ /\ created' <= 1
        /\ ghRelease'.exists <=> created' = 1
        /\ ghRelease'.exists => ghRelease'.assets = Staged
        /\ (dproc = "running" /\ PublishedTheseInputs) => ghRelease' = ghRelease
        /\ (dproc = "running" /\ dpc # "stage") => dproc' \in {"running", "exit0"}
        /\ (dproc = "running" /\ dproc' = "exit0" /\ AllUp(tiers')) =>
              PublishedTheseInputs'
      ]_vars

\* the second call has returned: create failed on the existing release, the
\* upload succeeded, and the notes are those of the inputs although this
\* call's edit did not reach the host
C11_Witness ==
    /\ deploys = 2
    /\ dproc = "exit0"
    /\ created = 1
    /\ Len(tiers) = 3
    /\ tiers[1].up /\ ~tiers[1].ok
    /\ ~tiers[2].up
    /\ tiers[3].ok
    /\ PublishedTheseInputs

\* the gh commands of deploy_github in the order of the code: create, the
\* captured edit and upload, the edit and upload of os.system
TierCmds == <<"create", "edit", "upload", "edit", "upload">>

\* C12: the gh commands of a call are a prefix of create, edit, upload,
\* edit, upload, the first three captured; the edit is run only after create
\* failed and is followed by the upload; the commands of os.system are run
\* only after the captured edit or upload failed; and a failure of the edit
\* or of the upload is a failure of their tier: a call in which one of them
\* failed goes on to the commands of os.system.
C12_TiersInOrder ==
    /\ Len(tiers) <= Len(TierCmds)
    /\ \A i \in 1..Len(tiers) :
          /\ tiers[i].cmd = TierCmds[i]
          /\ tiers[i].captured <=> i <= 3
    /\ (dproc = "running" /\ dpc = "create") => tiers = <<>>
    /\ Len(tiers) >= 2 => ~tiers[1].ok
    /\ Len(tiers) = 2 => (dproc = "running" /\ dpc = "upload")
    /\ Len(tiers) >= 4 => (~tiers[2].ok \/ ~tiers[3].ok)
    /\ (dproc = "exit0" /\ Len(tiers) >= 3 /\ (~tiers[2].ok \/ ~tiers[3].ok)) =>
          Len(tiers) = Len(TierCmds)

\* C13: once a call has created an alias, a reader resolving it at any
\* point during or after a later call of download_latest_release or
\* download_graal_version finds an unpacked archive: the alias is never
\* missing and never dangling.
C13_AliasNeverMissing ==
    \A l \in Aliases : existed[l] => PathExists(l)

\* C23: the directory at the unpack location is never the rest of an unzip
\* that failed, and a call of download_zip that returns leaves the directory
\* of a completed unzip, also after a process that has used up its tries.
C23_NoPartialDirectory ==
    [][ /\ unpacked' # "partial"
        /\ (fproc = "running" /\ fpc \in {"download_zip", "unzip"} /\ fproc' = "exit0") =>
              unpacked' = "complete"
      ]_vars

\* C24: deploy_github returns only with the release under the tag on the
\* host and every staged file attached to it; when no gh command of the
\* three tiers succeeded, the call does not return as if it had published.
C24_ReturnsOnlyWhenPublished ==
    dproc = "exit0" =>
        /\ ghRelease.exists
        /\ ghRelease.assets = Staged
        /\ \E i \in 1..Len(tiers) : tiers[i].ok

\* C25: a download_file whose download failed leaves no cache file that
\* counts as fresh, and no later call takes a truncated file for a hit.
C25_FailedDownloadLeavesMiss ==
    [][ /\ (fproc = "running" /\ fpc \in {"download_file", "download_zip"}
            /\ resp' \in {"http401", "http403", "cut"}) =>
              MustDownload(files'[fkey],
                           IF fpc = "download_zip" THEN retention * 100 ELSE retention,
                           now)
        /\ (fproc = "running" /\ fpc \in {"download_file", "download_zip"}
            /\ resp' = "hit") =>
              files[fkey].body # "truncated"
      ]_vars

\* C21: when the unpacked archive has no top-level entry or more than one,
\* download_latest_release and download_graal_version fail and create no
\* alias.
C21_FailsUnlessOneEntry ==
    [][ (aproc = "running" /\ apc = "symlink" /\ entries[apath] # 1) =>
            /\ aproc' = "exit1"
            /\ link' = link
      ]_vars

\* C22: when build_version comes to add_graal_events for a release, the
\* alias of the companion's source tree exists, also in a build_versions
\* that no download went before.
C22_CompanionTreeBeforeStage ==
    InBuildVersion("graal") => graalDir[repo]

=============================================================================
